---- MODULE Spec2Model ----
(* Model of fetch_index_data_v2.py: fetch four price series, align them,     *)
(* convert to yen, write data/index_data.json, print a summary.              *)
(*                                                                           *)
(* Numbers are floats that are exact multiples of 1/Unit, held as the        *)
(* integer count of 1/Unit; NaN is the missing value.  An index label is a   *)
(* date 1..NumDates or NonDate, a label that has no strftime.                *)
EXTENDS Integers, Sequences, FiniteSets, TLC

NumDates == 3
MaxCols == 2
MaxRows == 2

Unit == 16
NaN == -1
NonDate == 0

TICKERS == <<"acwi", "fang", "nikkei", "usdjpy">>
Names == {TICKERS[k] : k \in 1..Len(TICKERS)}
Fields == {"Close", "Adj Close", "Open"}
Dates == 1..NumDates

VARIABLES pc, i, df, picked, err, attempts, data,
          filled, processed, output, called, dirMade, fileWritten, summary

vars == <<pc, i, df, picked, err, attempts, data,
          filled, processed, output, called, dirMade, fileWritten, summary>>

----------------------------------------------------------------------------
(* The provider: what yf.download can hand back for one ticker.              *)

ColLists ==
  {c \in UNION {[1..n -> Fields] : n \in 0..MaxCols} :
      \A a, b \in 1..Len(c) : a # b => c[a] # c[b]}

Indexes == {{NonDate}} \cup ((SUBSET Dates) \ {{}})

NoDf == [kind |-> "none", multi |-> FALSE, cols |-> <<>>, index |-> {}]

Responses ==
  {[kind |-> "raise", multi |-> FALSE, cols |-> <<>>, index |-> {}],
   [kind |-> "empty", multi |-> FALSE, cols |-> <<>>, index |-> {}]}
  \cup [kind : {"ok"}, multi : BOOLEAN, cols : ColLists, index : Indexes]

\* closing price of a symbol on an index label, in 1/Unit
Price(name, d) ==
  CASE name = "acwi"   -> 4 * (d + 2)
    [] name = "fang"   -> 4 * (2 * d + 5)
    [] name = "nikkei" -> 16 + 3 * d
    [] name = "usdjpy" -> 4 * (d + 8)

HasStrftime(label) == label \in Dates

SetMin(S) == CHOOSE x \in S : \A y \in S : x <= y
SetMax(S) == CHOOSE x \in S : \A y \in S : y <= x

----------------------------------------------------------------------------
(* fetch_data                                                                *)

\* 'Close' in col[0]
HasClose(field) == field \in {"Close", "Adj Close"}

\* position of the column stored for a non-empty response; 0: the selection raises
SelectColumn(r) ==
  LET close_col == {k \in 1..Len(r.cols) : HasClose(r.cols[k])}
      at(f) == CHOOSE k \in 1..Len(r.cols) : r.cols[k] = f
      has(f) == \E k \in 1..Len(r.cols) : r.cols[k] = f
  IN IF r.multi
       THEN IF close_col # {} THEN SetMin(close_col)
            ELSE IF Len(r.cols) > 0 THEN 1 ELSE 0
       ELSE IF has("Close") THEN at("Close")
            ELSE IF has("Adj Close") THEN at("Adj Close")
            ELSE IF Len(r.cols) > 0 THEN 1 ELSE 0

Series(name, r) == [d \in r.index |-> Price(name, d)]

Put(m, k, v) == [x \in DOMAIN m \cup {k} |-> IF x = k THEN v ELSE m[x]]

\* the body of the loop for TICKERS[i]: download, select, log, except
fetch_data ==
  /\ pc = "fetch"
  /\ \E r \in Responses :
       LET name == TICKERS[i]
           col == IF r.kind = "ok" THEN SelectColumn(r) ELSE 0
           stored == col > 0
       IN /\ df' = r
          /\ picked' = IF stored THEN r.cols[col] ELSE ""
          /\ data' = IF stored THEN Put(data, name, Series(name, r)) ELSE data
          /\ err' = IF r.kind = "raise" THEN "download"
                    ELSE IF r.kind = "ok" /\ ~stored THEN "select"
                    ELSE IF stored /\ ~HasStrftime(SetMin(r.index)) THEN "log"
                    ELSE "none"
          /\ attempts' = [attempts EXCEPT ![name] = @ + 1]
  /\ pc' = "fetched"
  /\ UNCHANGED <<i, filled, processed, output, called, dirMade, fileWritten, summary>>

\* for name, ticker in TICKERS.items(): the next ticker
next_ticker ==
  /\ pc = "fetched"
  /\ i < Len(TICKERS)
  /\ i' = i + 1
  /\ pc' = "fetch"
  /\ df' = NoDf
  /\ picked' = ""
  /\ err' = "none"
  /\ UNCHANGED <<attempts, data, filled, processed, output, called, dirMade,
                 fileWritten, summary>>

\* return data
fetch_return ==
  /\ pc = "fetched"
  /\ i = Len(TICKERS)
  /\ pc' = "check"
  /\ df' = NoDf
  /\ picked' = ""
  /\ err' = "none"
  /\ UNCHANGED <<i, attempts, data, filled, processed, output, called, dirMade,
                 fileWritten, summary>>

----------------------------------------------------------------------------
(* process_data                                                              *)

RECURSIVE SortIndex(_)
SortIndex(S) ==
  IF S = {} THEN <<>> ELSE <<SetMin(S)>> \o SortIndex(S \ {SetMin(S)})

\* df[name] = series : the first column sets the index, later ones are
\* reindexed onto it
Frame(raw) ==
  LET first == TICKERS[SetMin({k \in 1..Len(TICKERS) : TICKERS[k] \in DOMAIN raw})]
      index == SortIndex(DOMAIN raw[first])
      cell(n, d) == IF d \in DOMAIN raw[n] THEN raw[n][d] ELSE NaN
  IN [k \in 1..Len(index) |->
        [n \in DOMAIN raw |-> cell(n, index[k])] @@ [date |-> index[k]]]

\* df.ffill().bfill()
Ffill_m(rows) ==
  [k \in 1..Len(rows) |->
     [c \in DOMAIN rows[k] |->
        IF c = "date" THEN rows[k][c]
        ELSE LET seen == {j \in 1..k : rows[j][c] # NaN}
                 later == {j \in k..Len(rows) : rows[j][c] # NaN}
             IN IF seen # {} THEN rows[SetMax(seen)][c]
                ELSE IF later # {} THEN rows[SetMin(later)][c]
                ELSE NaN]]

\* df.ffill()
Ffill(rows) ==
  [k \in 1..Len(rows) |->
     [c \in DOMAIN rows[k] |->
        IF c = "date" THEN rows[k][c]
        ELSE LET seen == {j \in 1..k : rows[j][c] # NaN}
             IN IF seen = {} THEN NaN ELSE rows[SetMax(seen)][c]]]

Mul(a, b) == IF a = NaN \/ b = NaN THEN NaN ELSE (a * b) \div Unit

\* fang left in dollars
Convert_m(rows) ==
  [k \in 1..Len(rows) |->
     [date   |-> rows[k].date,
      acwi   |-> Mul(rows[k].acwi, rows[k].usdjpy),
      fang   |-> rows[k].fang,
      nikkei |-> rows[k].nikkei,
      usdjpy |-> rows[k].usdjpy]]

\* the *_jpy columns, renamed
Convert(rows) ==
  [k \in 1..Len(rows) |->
     [date   |-> rows[k].date,
      acwi   |-> Mul(rows[k].acwi, rows[k].usdjpy),
      fang   |-> Mul(rows[k].fang, rows[k].usdjpy),
      nikkei |-> rows[k].nikkei,
      usdjpy |-> rows[k].usdjpy]]

\* dropna(how='all')
Complete_m(row) == \E n \in Names : row[n] # NaN

\* a row dropna keeps
Complete(row) == \A n \in Names : row[n] # NaN

Dropna(rows) == SelectSeq(rows, Complete)

\* len(raw_data) < 3
TooFew_m(raw) == Cardinality(DOMAIN raw) < 3

\* len(raw_data) < 4
TooFew(raw) == Cardinality(DOMAIN raw) < 4

main_abort ==
  /\ pc = "check"
  /\ TooFew(data)
  /\ pc' = "returned"
  /\ UNCHANGED <<i, df, picked, err, attempts, data, filled, processed, output,
                 called, dirMade, fileWritten, summary>>

process_data ==
  /\ pc = "check"
  /\ ~TooFew(data)
  /\ called' = called \cup {"process_data"}
  /\ IF DOMAIN data = Names
       THEN /\ filled' = Ffill(Frame(data))
            /\ processed' = Dropna(Convert(filled'))
            /\ pc' = "save"
       ELSE /\ pc' = "raised"
            /\ UNCHANGED <<filled, processed>>
  /\ UNCHANGED <<i, df, picked, err, attempts, data, output, dirMade,
                 fileWritten, summary>>

----------------------------------------------------------------------------
(* save_to_json                                                              *)

\* round(float(x), 2) in 1/100: nearest, ties to even; nan stays nan
Round2(x) ==
  LET q == (x * 100) \div Unit
      r == (x * 100) % Unit
  IN IF 2 * r < Unit THEN q
     ELSE IF 2 * r > Unit THEN q + 1
     ELSE IF q % 2 = 0 THEN q ELSE q + 1

Num(x) == IF x = NaN THEN [t |-> "NaN", v |-> 0] ELSE [t |-> "num", v |-> Round2(x)]
Null == [t |-> "null", v |-> 0]

Record(row) ==
  [date   |-> row.date,
   acwi   |-> Num(row.acwi),
   fang   |-> IF row.fang # NaN THEN Num(row.fang) ELSE Null,
   nikkei |-> Num(row.nikkei),
   usdjpy |-> Num(row.usdjpy)]

NoOutput == [start_date |-> NonDate, end_date |-> NonDate, total_records |-> 0,
             data |-> <<>>]

\* df.index[0].strftime / df.index[-1].strftime raise
MetadataRaises(rows) ==
  \/ Len(rows) = 0
  \/ ~HasStrftime(rows[1].date)
  \/ ~HasStrftime(rows[Len(rows)].date)

\* the file opened before the metadata is built
save_to_json_m ==
  /\ pc = "save"
  /\ called' = called \cup {"save_to_json"}
  /\ dirMade' = TRUE
  /\ fileWritten' = TRUE
  /\ IF MetadataRaises(processed)
       THEN /\ pc' = "raised"
            /\ UNCHANGED output
       ELSE /\ output' = [start_date    |-> processed[1].date,
                          end_date      |-> processed[Len(processed)].date,
                          total_records |-> Len(processed),
                          data |-> [k \in 1..Len(processed) |-> Record(processed[k])]]
            /\ pc' = "summary"
  /\ UNCHANGED <<i, df, picked, err, attempts, data, filled, processed, summary>>

save_to_json ==
  /\ pc = "save"
  /\ called' = called \cup {"save_to_json"}
  /\ dirMade' = TRUE
  /\ IF MetadataRaises(processed)
       THEN /\ pc' = "raised"
            /\ UNCHANGED <<output, fileWritten>>
       ELSE /\ output' = [start_date    |-> processed[1].date,
                          end_date      |-> processed[Len(processed)].date,
                          total_records |-> Len(processed),
                          data |-> [k \in 1..Len(processed) |-> Record(processed[k])]]
            /\ fileWritten' = TRUE
            /\ pc' = "summary"
  /\ UNCHANGED <<i, df, picked, err, attempts, data, filled, processed, summary>>

----------------------------------------------------------------------------
(* show_summary                                                              *)

\* the columns for which a block is printed
Blocks(rows) ==
  {c \in {"acwi", "fang", "nikkei"} : \E k \in 1..Len(rows) : rows[k][c] # NaN}

show_summary ==
  /\ pc = "summary"
  /\ called' = called \cup {"show_summary"}
  /\ summary' = Blocks(processed)
  /\ pc' = "done"
  /\ UNCHANGED <<i, df, picked, err, attempts, data, filled, processed, output,
                 dirMade, fileWritten>>

----------------------------------------------------------------------------
Init ==
  /\ pc = "fetch"
  /\ i = 1
  /\ df = NoDf
  /\ picked = ""
  /\ err = "none"
  /\ attempts = [n \in Names |-> 0]
  /\ data = [n \in {} |-> <<>>]
  /\ filled = <<>>
  /\ processed = <<>>
  /\ output = NoOutput
  /\ called = {}
  /\ dirMade = FALSE
  /\ fileWritten = FALSE
  /\ summary = {}

Next ==
  \/ fetch_data
  \/ next_ticker
  \/ fetch_return
  \/ main_abort
  \/ process_data
  \/ save_to_json
  \/ show_summary

Spec == Init /\ [][Next]_vars

----------------------------------------------------------------------------
(* save_to_json and show_summary applied to any table                        *)

\* the value of a field that is not missing
Quote(name, d) == Price(name, d) \div 2 + d

Tables ==
  UNION {{[k \in 1..Cardinality(S) |->
             [n \in Names |-> IF n \in miss[k] THEN NaN ELSE Quote(n, SortIndex(S)[k])]
               @@ [date |-> SortIndex(S)[k]]] :
            miss \in [1..Cardinality(S) -> SUBSET Names]} :
         S \in {T \in SUBSET Dates : Cardinality(T) <= MaxRows}}

InitSave ==
  /\ pc = "save"
  /\ i = 1
  /\ df = NoDf
  /\ picked = ""
  /\ err = "none"
  /\ attempts = [n \in Names |-> 0]
  /\ data = [n \in {} |-> <<>>]
  /\ filled = <<>>
  /\ processed \in Tables
  /\ output = NoOutput
  /\ called = {}
  /\ dirMade = FALSE
  /\ fileWritten = FALSE
  /\ summary = {}

NextSave ==
  \/ save_to_json
  \/ show_summary

SpecSave == InitSave /\ [][NextSave]_vars

----------------------------------------------------------------------------
(* Properties                                                                *)

Processed == "process_data" \in called /\ DOMAIN data = Names

HasRow(rows, D) == \E k \in 1..Len(rows) : rows[k].date = D

RowOf(rows, D) == rows[CHOOSE k \in 1..Len(rows) : rows[k].date = D]

AllDates == UNION {DOMAIN data[n] \cap Dates : n \in Names}

\* C1: the table has a row for every date of any raw series on which each of
\* the four series has an observation on or before that date, and its rows
\* are in ascending date order.
C1_OuterUnion ==
  Processed =>
    /\ \A D \in AllDates :
         (\A n \in Names : \E d \in DOMAIN data[n] \cap Dates : d <= D)
           => HasRow(processed, D)
    /\ \A a, b \in 1..Len(processed) : a < b => processed[a].date < processed[b].date

\* C2: on a date D of the table where series n has no raw observation, the
\* value used for n is n's raw value on its latest observation date before D.
C2_ForwardFill ==
  Processed =>
    \A n \in Names : \A k \in 1..Len(processed) :
      LET D == processed[k].date
          prior == {d \in DOMAIN data[n] \cap Dates : d < D}
      IN (D \notin DOMAIN data[n] /\ prior # {})
           => RowOf(filled, D)[n] = data[n][SetMax(prior)]

\* C3: in every row of the table acwi and fang are the forward-filled dollar
\* value times the forward-filled usdjpy of that date, nikkei and usdjpy are
\* the forward-filled values unchanged.
C3_Conversion ==
  Processed =>
    \A k \in 1..Len(processed) :
      /\ HasRow(filled, processed[k].date)
      /\ LET f == RowOf(filled, processed[k].date)
         IN /\ processed[k].acwi * Unit = f.acwi * f.usdjpy
            /\ processed[k].fang * Unit = f.fang * f.usdjpy
            /\ processed[k].nikkei = f.nikkei
            /\ processed[k].usdjpy = f.usdjpy

\* a table with a row whose fang and usdjpy were both carried forward
C3_Witness ==
  /\ Processed
  /\ \E k \in 1..Len(processed) :
       LET D == processed[k].date
       IN /\ D \notin DOMAIN data["fang"]
          /\ D \notin DOMAIN data["usdjpy"]
          /\ processed[k].fang * Unit = RowOf(filled, D).fang * RowOf(filled, D).usdjpy

\* C4: no row of the table has a missing field.
C4_NoMissing ==
  \A k \in 1..Len(processed) : \A n \in Names : processed[k][n] # NaN

\* a row with a missing field was dropped and another row kept
C4_Witness ==
  /\ Processed
  /\ Len(processed) > 0
  /\ \E k \in 1..Len(filled) :
       /\ \E n \in Names : filled[k][n] = NaN
       /\ \E n \in Names : filled[k][n] # NaN
       /\ ~HasRow(processed, filled[k].date)

\* C5: with fewer than four symbols fetched nothing is processed, saved,
\* created or written and main returns without raising; the file is written
\* only when all four were fetched.
C5_TooFewNoOutput ==
  /\ (pc \notin {"fetch", "fetched"} /\ Cardinality(DOMAIN data) < 4)
       => /\ called = {}
          /\ ~dirMade
          /\ ~fileWritten
          /\ output = NoOutput
          /\ pc \in {"check", "returned"}
  /\ fileWritten => DOMAIN data = Names

\* main returned early with three of the four symbols
C5_Witness ==
  /\ pc = "returned"
  /\ Cardinality(DOMAIN data) = 3
  /\ called = {}

\* C6: every field of every record is null when the table value is missing,
\* else the table value rounded to two decimal places.
C6_NullPerField ==
  (pc \in {"summary", "done"}) =>
    \A k \in 1..Len(processed) : \A n \in Names :
      IF processed[k][n] = NaN
        THEN output.data[k][n] = Null
        ELSE /\ output.data[k][n].t = "num"
             /\ 2 * (output.data[k][n].v * Unit - processed[k][n] * 100) <= Unit
             /\ 2 * (processed[k][n] * 100 - output.data[k][n].v * Unit) <= Unit

\* C7: a symbol whose handling raised or whose response was empty is not in
\* the result, and every symbol is attempted once.
C7_FailedOmitted ==
  /\ (pc = "fetched" /\ (err # "none" \/ df.kind = "empty"))
       => TICKERS[i] \notin DOMAIN data
  /\ pc # "raised" \/ called # {}
  /\ \A k \in 1..Len(TICKERS) :
       attempts[TICKERS[k]] =
         IF k < i \/ (k = i /\ pc = "fetched") \/ pc \notin {"fetch", "fetched"}
           THEN 1 ELSE 0

\* C9: multi-level columns: the column named exactly Close when there is one;
\* single-level: Close, else Adj Close, else the first column.
C9_ColumnSelection ==
  (pc = "fetched" /\ df.kind = "ok" /\ Len(df.cols) > 0) =>
    LET has(f) == \E k \in 1..Len(df.cols) : df.cols[k] = f
    IN IF df.multi
         THEN has("Close") => picked = "Close"
         ELSE picked = IF has("Close") THEN "Close"
                       ELSE IF has("Adj Close") THEN "Adj Close"
                       ELSE df.cols[1]

\* C8: the table has no row for a date earlier than the first raw
\* observation of any of the four series.
C8_NoBackfill ==
  Processed =>
    \A n \in Names : \A D \in Dates :
      (DOMAIN data[n] \subseteq Dates /\ D < SetMin(DOMAIN data[n]))
        => ~HasRow(processed, D)

\* a date of the joined index before fang's first observation, dropped, while
\* a later row is kept
C8_Witness ==
  /\ Processed
  /\ Len(processed) > 0
  /\ DOMAIN data["fang"] \subseteq Dates
  /\ \E D \in DOMAIN data["acwi"] \cap Dates :
       /\ D < SetMin(DOMAIN data["fang"])
       /\ HasRow(filled, D)
       /\ ~HasRow(processed, D)

\* C10: with four symbols fetched and an empty table, save_to_json makes the
\* directory and raises before the file is opened; show_summary is not
\* reached and main does not complete.
C10_EmptyTableRaises ==
  (Processed /\ Len(processed) = 0) =>
    /\ pc \in {"save", "raised"}
    /\ ~fileWritten
    /\ output = NoOutput
    /\ "show_summary" \notin called
    /\ pc = "raised" => (dirMade /\ "save_to_json" \in called)

\* main raised in save_to_json on an empty table of dated series
C10_Witness ==
  /\ Processed
  /\ Len(processed) = 0
  /\ \A n \in Names : DOMAIN data[n] \subseteq Dates
  /\ pc = "raised"
  /\ dirMade
  /\ ~fileWritten

====
